---- MODULE Spec2Model ----
\* Verification model of utils/fit.py: the hierarchical EM driver (fit_hier),
\* the single-start optimiser wrapper (fit), the multi-start pool (fit_parallel)
\* and the Bayesian model selection (fit_bms, calc_lme, dirchlet_exceedence).
\*
\* Numbers.  Log-scale quantities (log_post, log-determinants, LME, BIC) are
\* IEEE doubles in the code; here they are extended reals: a finite value in
\* fixed point (an integer), +inf, -inf, or NaN, with the IEEE rules for
\* addition, negation, absolute value and comparison.  Group means and
\* variances are exact rationals [n, d] so that the floor 1e-5 is literal.
\* Parameter vectors have one coordinate (n_param); numpy acts coordinate-wise.
EXTENDS Integers, Sequences, FiniteSets, TLC

VARIABLES
    \* ---- fit_hier
    pc,         \* position inside fit_hier: "iter","estep","save","check","done"
    epi,        \* iteration counter (line 54)
    lme,        \* group LME of the last finished M-step (line 55 / 106)
    prev_lme,   \* line 58
    mus, vs,    \* group mean and variance (lines 46-51, 87, 105)
    p_priors,   \* prior built at line 62
    fit_info,   \* dict unit -> FitResult of the running iteration (line 65)
    ei,         \* index of the E-step for-loop (line 66), 1-based
    fname,      \* content of the checkpoint file (line 110); <<>> = not written
    ret,        \* value returned at line 123
    max_iter, tol,  \* arguments of fit_hier
    start,      \* ghost: group mean/variance in effect when the iteration began
    \* ---- fit_parallel
    par_pc,     \* "collect", "returned" or "raised"
    n_fits,     \* argument
    results,    \* the AsyncResult of every restart: pending, or the FitResult it holds
    pi,         \* index of the collecting for loop (line 263), 0-based
    opt_val, opt_res, losses,   \* lines 261-268
    par_ret,    \* value returned at line 272
    \* ---- fit
    fit_pc,     \* "args", "ready", "optimised" or "done"
    method, alg, init_arg, arg_priors,   \* arguments as passed by the caller
    fp_priors,  \* the local p_priors after line 160
    bnds,       \* the local bnds after line 161
    param0,     \* lines 166-173
    result,     \* what the optimiser handed back (lines 186 / 191)
    loss_priors,    \* ghost: the priors handed to loss_fn by the optimiser
    fit_res,    \* lines 200-210
    \* ---- fit_bms: the evidence matrix
    bms_pc,     \* "cols" or "lme"
    all_sub_info,   \* argument: per model, the lists log_post, H, bic over the units
    use_bic,    \* argument
    cols,       \* the list the comprehension of line 313 / 315 has built so far
    lme_mat,    \* lme after np.vstack(...).T: units x models
    \* ---- dirchlet_exceedence and the protected exceedance of fit_bms
    xp_pc,      \* "blocks", "sample", "ratio", "pxp" or "done"
    alpha_post, \* argument
    nSample,    \* argument
    blk,        \* block sizes (lines 410-413)
    bi,         \* index of the sampling loop (line 417), 1-based
    xp,         \* the accumulated counts (line 423), then the ratios (line 425)
    ties,       \* ghost: surplus maxima met, (number of maximal entries - 1) per draw
    bor,        \* calc_BOR's value (line 351)
    pxp         \* line 354

hierVars == <<pc, epi, lme, prev_lme, mus, vs, p_priors, fit_info, ei, fname,
              ret, max_iter, tol, start>>

parVars == <<par_pc, n_fits, results, pi, opt_val, opt_res, losses, par_ret>>

fitVars == <<fit_pc, method, alg, init_arg, arg_priors, fp_priors, bnds, param0,
             result, loss_priors, fit_res>>

bmsVars == <<bms_pc, all_sub_info, use_bic, cols, lme_mat>>

xpVars == <<xp_pc, alpha_post, nSample, blk, bi, xp, ties, bor, pxp>>

vars == <<hierVars, parVars, fitVars, bmsVars, xpVars>>

notHier == <<parVars, fitVars, bmsVars, xpVars>>
notPar  == <<hierVars, fitVars, bmsVars, xpVars>>
notFit  == <<hierVars, parVars, bmsVars, xpVars>>
notBms  == <<hierVars, parVars, fitVars, xpVars>>
notXp   == <<hierVars, parVars, fitVars, bmsVars>>

\* the variables of the functions a specification does not run stay put
HierIdle ==
    /\ pc = "off" /\ epi = 0 /\ lme = 0 /\ prev_lme = 0 /\ mus = 0 /\ vs = 0
    /\ p_priors = 0 /\ fit_info = <<>> /\ ei = 0 /\ fname = <<>> /\ ret = <<>>
    /\ max_iter = 0 /\ tol = 0 /\ start = 0
ParIdle ==
    /\ par_pc = "off" /\ n_fits = 0 /\ results = <<>> /\ pi = 0 /\ opt_val = 0
    /\ opt_res = 0 /\ losses = <<>> /\ par_ret = 0
FitIdle ==
    /\ fit_pc = "off" /\ method = "" /\ alg = "" /\ init_arg = 0 /\ arg_priors = 0
    /\ fp_priors = 0 /\ bnds = 0 /\ param0 = 0 /\ result = 0
    /\ loss_priors = 0 /\ fit_res = 0
BmsIdle ==
    /\ bms_pc = "off" /\ all_sub_info = <<>> /\ use_bic = FALSE /\ cols = <<>>
    /\ lme_mat = <<>>
XpIdle ==
    /\ xp_pc = "off" /\ alpha_post = <<>> /\ nSample = 0 /\ blk = <<>> /\ bi = 0
    /\ xp = <<>> /\ ties = 0 /\ bor = 0 /\ pxp = <<>>

\* ------------------------------------------------------------------ bounds
NSub    == 2    \* units in the dataset
MaxIter == 3    \* largest max_iter tried
MaxFits == 3    \* largest n_fits tried
NModels == 2    \* competing models handed to fit_bms
MaxSample == 2  \* largest nSample tried with every draw enumerated
MaxBlk == 3     \* largest nSample of the block runs, in memory caps

\* ------------------------------------------------------- extended reals
NaN     == [k |-> "nan", v |-> 0]
PInf    == [k |-> "inf", v |-> 1]
NInf    == [k |-> "inf", v |-> -1]
Fin(n)  == [k |-> "fin", v |-> n]

IsFinite(a) == a.k = "fin"
IsNan(a)    == a.k = "nan"
IsInf(a)    == a.k = "inf"

XAdd(a, b) ==
    IF IsNan(a) \/ IsNan(b) THEN NaN
    ELSE IF IsInf(a) /\ IsInf(b) THEN (IF a.v = b.v THEN a ELSE NaN)
    ELSE IF IsInf(a) THEN a
    ELSE IF IsInf(b) THEN b
    ELSE Fin(a.v + b.v)

XNeg(a) == IF IsFinite(a) THEN Fin(-a.v) ELSE IF IsInf(a) THEN [k |-> "inf", v |-> -a.v] ELSE NaN

XSub(a, b) == XAdd(a, XNeg(b))

XAbs(a) == IF IsFinite(a) THEN Fin(IF a.v < 0 THEN -a.v ELSE a.v)
           ELSE IF IsInf(a) THEN PInf ELSE NaN

\* a < b on doubles: false as soon as one side is NaN
XLt(a, b) ==
    IF IsNan(a) \/ IsNan(b) THEN FALSE
    ELSE IF IsInf(a) THEN a.v = -1 /\ ~(IsInf(b) /\ b.v = -1)
    ELSE IF IsInf(b) THEN b.v = 1
    ELSE a.v < b.v

\* .5 * a (fixed point, rounded toward -inf)
XHalf(a) == IF IsFinite(a) THEN Fin(a.v \div 2) ELSE a

\* ------------------------------------------------------------- rationals
Rat(n, d)  == [n |-> n, d |-> d]
RLt(a, b)  == a.n * b.d < b.n * a.d
RLe(a, b)  == a.n * b.d <= b.n * a.d
RSub(a, b) == Rat(a.n * b.d - b.n * a.d, a.d * b.d)
RMul(a, b) == Rat(a.n * b.n, a.d * b.d)
RAdd(a, b) == Rat(a.n * b.d + b.n * a.d, a.d * b.d)
RDivInt(a, m) == Rat(a.n, a.d * m)
REq(a, b)  == a.n * b.d = b.n * a.d

\* floor(log2(x)) for x >= 1: np.log in fixed point, unit ln 2
RECURSIVE Log2(_)
Log2(x) == IF x <= 1 THEN 0 ELSE 1 + Log2(x \div 2)


\* ====================================================================
\*                              fit_hier
\* ====================================================================
n_param  == 1                      \* model.agent.n_params
m_data   == 2                      \* rows of the first unit's first table
sub_lst  == [i \in 1..NSub |-> i]   \* list(data.keys())
n_sub    == Len(sub_lst)
p_pbnds  == <<-1, 1>>              \* model.agent.p_pbnds of the one parameter
plb      == p_pbnds[1]
pub      == p_pbnds[2]
LOG_2PI  == 2                      \* np.log(2*np.pi) in fixed point (unit ln 2, rounded down)
a_min    == Rat(1, 100000)         \* 1e-5
GroupKey == 0                      \* the reserved key 'group' (unit ids are 1..NSub)
NoFile   == <<>>                   \* fname before the first pickle.dump
NoReturn == <<>>

\* values of the arguments tried
TolVals  == {1, 2}
InitArgs == {[given |-> FALSE, mus |-> Rat(0, 1), vs |-> Rat(0, 1)]}
            \cup {[given |-> TRUE, mus |-> Rat(0, 1), vs |-> Rat(v, 1)] : v \in {0, 1}}

\* np.linalg.pinv of the 1x1 matrix [[h]] (fit, line 209); H is kept as its determinant
Pinv(h) == IF h = 0 THEN Rat(0, 1) ELSE IF h > 0 THEN Rat(1, h) ELSE Rat(-1, -h)

\* What model.fit(data[sub], 'map', 'BFGS', pool, p_priors, ...) can hand back for
\* one unit: the optimiser is opaque, so the outcome is a choice among these.
\*   regular fits (two parameter values, non-singular curvature),
\*   a fit with a singular inverse Hessian (H = pinv(0) = 0, determinant zero),
\*   a fit whose log-posterior moved, and one whose log-posterior is NaN.
FitOutcomes ==
    {[param |-> p, H_inv |-> 1, log_post |-> Fin(0)] : p \in {0, 1}}
    \cup {[param |-> 0, H_inv |-> 0, log_post |-> Fin(0)],
          [param |-> 0, H_inv |-> 1, log_post |-> Fin(-1)],
          [param |-> 0, H_inv |-> 1, log_post |-> NaN]}

\* the FitResult of one unit; "prior" is a ghost field: the prior it was fitted with
FitResult(o, priors) ==
    [log_post |-> o.log_post, param |-> o.param, H_inv |-> o.H_inv,
     H |-> [square |-> TRUE, det |-> Pinv(o.H_inv)], prior |-> priors]

\* line 62: norm(mu, sqrt(v)), identified by its mean and variance
Prior(m, v) == [mu |-> m, var |-> v]

\* fit_info.items(): the unit keys present, in insertion (= sub_lst) order
Items(fi) == SelectSeq(sub_lst, LAMBDA u : u \in DOMAIN fi)

\* np.linalg.slogdet(H)[1] = log|det H|: -inf for a zero determinant, no exception
Slogdet(H) ==
    IF H.det.n = 0 THEN NInf
    ELSE Fin(Log2(IF H.det.n < 0 THEN -H.det.n ELSE H.det.n) - Log2(H.det.d))

\* slogdet raises LinAlgError only when H is not a square matrix
SlogdetRaises(H) == ~H.square

\* line 95
Laplace(item) ==
    XAdd(item.log_post, XHalf(XSub(Fin(n_param * LOG_2PI), Slogdet(item.H))))

\* lines 90-103: group_ll, the units whose try block raised being skipped
RECURSIVE GroupLL(_, _)
GroupLL(fi, keys) ==
    IF keys = <<>> THEN <<>>
    ELSE IF SlogdetRaises(fi[Head(keys)].H) THEN GroupLL(fi, Tail(keys))
    ELSE <<Laplace(fi[Head(keys)])>> \o GroupLL(fi, Tail(keys))

\* np.sum of a list of doubles
RECURSIVE XSum(_)
XSum(s) == IF s = <<>> THEN Fin(0) ELSE XAdd(Head(s), XSum(Tail(s)))

\* line 106
GroupLme(fi) ==
    XSub(XSum(GroupLL(fi, Items(fi))), Fin(n_param * Log2(m_data * n_sub)))

RECURSIVE SumParam(_, _)
SumParam(fi, keys) ==
    IF keys = <<>> THEN 0 ELSE fi[Head(keys)].param + SumParam(fi, Tail(keys))

\* line 87: np.mean(params, axis=0)
MeanParams(fi) == Rat(SumParam(fi, Items(fi)), Len(Items(fi)))

\* lines 89-92: vs += params[i]**2 + diag(H_inv)
RECURSIVE VsAcc(_, _)
VsAcc(fi, keys) ==
    IF keys = <<>> THEN 0
    ELSE fi[Head(keys)].param * fi[Head(keys)].param + fi[Head(keys)].H_inv
         + VsAcc(fi, Tail(keys))

\* np.clip(x, a_min=lo, a_max=np.inf)
Clip(x, lo) == IF RLt(x, lo) THEN lo ELSE x

\* line 105: np.clip(vs/n_sub - mus**2, 1e-5, inf), mus being the new mean
GroupVar(fi, m) == Clip(RSub(Rat(VsAcc(fi, Items(fi)), n_sub), RMul(m, m)), a_min)

\* lines 46-51
InitMus(init) == IF init.given THEN init.mus ELSE Rat(2 * plb + (pub - plb), 2)
InitVs(init)  == IF init.given THEN init.vs  ELSE Rat(pub - plb, 1)

HierInit ==
    /\ pc = "iter" /\ epi = 0 /\ lme = Fin(0) /\ prev_lme = Fin(0)
    /\ \E init \in InitArgs :
          /\ mus = InitMus(init) /\ vs = InitVs(init)
          /\ p_priors = Prior(InitMus(init), InitVs(init))
          /\ start = Prior(InitMus(init), InitVs(init))
    /\ fit_info = <<>> /\ ei = 1
    /\ fname = NoFile /\ ret = NoReturn
    /\ max_iter \in 1..MaxIter /\ tol \in TolVals

\* lines 57-65: a new round begins
IterBegin ==
    /\ pc = "iter"
    /\ epi' = epi + 1
    /\ prev_lme' = lme
    /\ p_priors' = Prior(mus, vs)
    /\ start' = Prior(mus, vs)
    /\ fit_info' = <<>>
    /\ ei' = 1
    /\ pc' = "estep"
    /\ UNCHANGED <<lme, mus, vs, fname, ret, max_iter, tol>>
    /\ UNCHANGED notHier

\* a for loop that stops one unit short
EStepPendingShort == ei <= n_sub - 1

\* line 66: the for loop has units left
EStepPending == ei <= n_sub

\* lines 66-71: the E-step of the next unit of sub_lst
EStep ==
    /\ pc = "estep" /\ EStepPending
    /\ \E o \in FitOutcomes :
          fit_info' = (sub_lst[ei] :> FitResult(o, p_priors)) @@ fit_info
    /\ ei' = ei + 1
    /\ UNCHANGED <<pc, epi, lme, prev_lme, mus, vs, p_priors, fname, ret,
                   max_iter, tol, start>>
    /\ UNCHANGED notHier

\* lines 80-106: the M-step, once the for loop is exhausted
MStep ==
    /\ pc = "estep" /\ ~EStepPending
    /\ mus' = MeanParams(fit_info)
    /\ vs' = GroupVar(fit_info, MeanParams(fit_info))
    /\ lme' = GroupLme(fit_info)
    /\ pc' = "save"
    /\ UNCHANGED <<epi, prev_lme, p_priors, fit_info, ei, fname, ret,
                   max_iter, tol, start>>
    /\ UNCHANGED notHier

\* line 110: pickle.dump(fit_info) into fname
Checkpoint ==
    /\ pc = "save"
    /\ fname' = fit_info
    /\ pc' = "check"
    /\ UNCHANGED <<epi, lme, prev_lme, mus, vs, p_priors, fit_info, ei, ret,
                   max_iter, tol, start>>
    /\ UNCHANGED notHier

\* a loop test that lets one round too many through
DoneOffByOne == XLt(XAbs(XSub(lme, prev_lme)), Fin(tol)) \/ epi > max_iter

\* line 113
Done == XLt(XAbs(XSub(lme, prev_lme)), Fin(tol)) \/ epi >= max_iter

\* lines 115-119
GroupFit == [group_lme |-> lme, group_mu |-> mus, group_var |-> vs]

\* lines 114-123: attach the group record and return
Finish ==
    /\ pc = "check" /\ Done
    /\ fit_info' = (GroupKey :> GroupFit) @@ fit_info
    /\ ret' = fit_info'
    /\ pc' = "done"
    /\ UNCHANGED <<epi, lme, prev_lme, mus, vs, p_priors, ei, fname,
                   max_iter, tol, start>>
    /\ UNCHANGED notHier

\* line 114 false: loop again
Continue ==
    /\ pc = "check" /\ ~Done
    /\ pc' = "iter"
    /\ UNCHANGED <<epi, lme, prev_lme, mus, vs, p_priors, fit_info, ei, fname,
                   ret, max_iter, tol, start>>
    /\ UNCHANGED notHier

HierNext == IterBegin \/ EStep \/ MStep \/ Checkpoint \/ Finish \/ Continue

InitHier == HierInit /\ ParIdle /\ FitIdle /\ BmsIdle /\ XpIdle

SpecHier == InitHier /\ [][HierNext]_vars

Units == {sub_lst[i] : i \in DOMAIN sub_lst}

\* statements fit_hier still has to execute before it returns, at most:
\* n_sub + 4 per round not yet begun, plus what is left of the running round
Rank ==
    (max_iter - epi) * (n_sub + 4)
    + (CASE pc = "iter"  -> 0
         [] pc = "estep" -> (n_sub + 1 - ei) + 3
         [] pc = "save"  -> 2
         [] pc = "check" -> 1
         [] pc = "done"  -> 0)

\* C1: for every max_iter >= 1 and every sequence of group LME values (finite,
\* infinite or NaN) fit_hier leaves its EM loop after at most max_iter
\* E-step/M-step rounds: the round counter never passes max_iter, and every
\* statement fit_hier executes lowers the natural number Rank, which reaches 0
\* only at the return, so no run goes on for ever (the code is sequential and,
\* model.fit returning, none of its statements blocks).
C1_Terminates ==
    /\ [](epi <= max_iter /\ Rank >= 0 /\ (Rank = 0 => pc = "done"))
    /\ [][Rank' < Rank]_vars

\* a run that met a NaN group LME in its last round and still returned, at the cap
C1_Witness == pc = "done" /\ epi = max_iter /\ max_iter >= 2 /\ IsNan(lme)

\* C2: when fit_hier has returned, the checkpoint file holds what was returned:
\* every unit's final FitResult together with the GroupRecord under 'group'.
C2_CheckpointIsReturn == pc = "done" => fname = ret

\* C3: every group variance in effect is >= 1e-5: the one the E-step priors of
\* the round are built from (the initial or caller-supplied one included), the
\* one the M-step produces, and the group_var returned.
C3_VarianceFloor ==
    /\ pc \in {"estep", "save", "check", "done"} => RLe(a_min, p_priors.var)
    /\ pc \in {"save", "check", "done"} => RLe(a_min, vs)
    /\ pc = "done" => RLe(a_min, ret[GroupKey].group_var)

\* the Laplace terms of the units whose Hessian log-determinant is a finite number
RECURSIVE FiniteDetTerms(_, _)
FiniteDetTerms(fi, keys) ==
    IF keys = <<>> THEN <<>>
    ELSE IF ~SlogdetRaises(fi[Head(keys)].H) /\ IsFinite(Slogdet(fi[Head(keys)].H))
         THEN <<Laplace(fi[Head(keys)])>> \o FiniteDetTerms(fi, Tail(keys))
         ELSE FiniteDetTerms(fi, Tail(keys))

\* C5: after the M-step the group LME is the sum of the Laplace terms of the
\* units whose Hessian log-determinant is finite, minus k*ln(rows): a unit with
\* a zero (or non-finite) determinant contributes nothing.
C5_DegenerateDropped ==
    pc = "save" =>
        lme = XSub(XSum(FiniteDetTerms(fit_info, Items(fit_info))),
                   Fin(n_param * Log2(m_data * n_sub)))

\* C9: the M-step and the checkpoint of a round come only after the E-step of
\* every unit; the checkpoint holds exactly one FitResult per unit id, and the
\* one just written holds results fitted with the prior built from the group
\* mean/variance in effect when the round began.
C9_Barrier ==
    /\ pc \in {"save", "check"} => DOMAIN fit_info = Units
    /\ fname # NoFile => DOMAIN fname = Units
    /\ pc = "check" => \A u \in Units : fname[u].prior = start

\* the checkpoint of a second round, fitted with a prior the first M-step produced
C9_Witness ==
    /\ pc = "check" /\ epi = 2 /\ DOMAIN fname = Units
    /\ \A u \in Units : fname[u].prior = start
    /\ start.mu # Rat(0, 1)

\* C10: a run that stops before max_iter has done at least two rounds and its
\* last two group LMEs differ by less than tol.
C10_ConvergedNeedsTwoRounds ==
    (pc = "done" /\ epi < max_iter) =>
        (epi >= 2 /\ XLt(XAbs(XSub(lme, prev_lme)), Fin(tol)))


\* ====================================================================
\*                                 fit
\* ====================================================================
seed     == 2021       \* default seed of fit and fit_parallel
n_rows   == 4          \* np.sum of the row counts of data (line 163)
Methods  == {"mle", "map", "hier"}
Algs     == {"Nelder-Mead", "BFGS", "bads"}
NoPriors == [given |-> FALSE, mu |-> 0]                      \* None
PriorArgs == {NoPriors} \cup {[given |-> TRUE, mu |-> m] : m \in {0, 1}}
FitInitArgs == {[given |-> FALSE, x |-> 0], [given |-> TRUE, x |-> 1]}
XVals    == {0, 1}     \* points the optimiser may stop at
HessInvVals == {0, 1}  \* inverse-curvature estimates BFGS may report

\* The loss function of the model contract, loss(params, data, priors_or_none):
\* a negative log-likelihood, plus the negative log-prior when priors are given.
loss_fn(x, priors) ==
    Fin((x - 1) * (x - 1)
        + (IF priors.given THEN (x - priors.mu) * (x - priors.mu) + 1 ELSE 0))

\* a method test that keeps the priors for 'map' only
EffectivePriorsMapOnly(m, priors) == IF m = "map" THEN priors ELSE NoPriors

\* line 160: if method=='mle': p_priors=None
EffectivePriors(m, priors) == IF m = "mle" THEN NoPriors ELSE priors

\* line 161: if alg=='BFGS': bnds=None
EffectiveBnds(a) == IF a = "BFGS" THEN "None" ELSE "bnds"

\* lines 166-173: the point given, or the draw RandomState(seed) determines
InitialPoint(init, sd) ==
    IF init.given THEN [from |-> "init", x |-> init.x, seed |-> 0]
    ELSE [from |-> "rng", x |-> 0, seed |-> sd]

FitInit ==
    /\ fit_pc = "args"
    /\ method \in Methods /\ alg \in Algs
    /\ init_arg \in FitInitArgs /\ arg_priors \in PriorArgs
    /\ fp_priors = arg_priors /\ bnds = "bnds" /\ param0 = 0
    /\ result = 0 /\ loss_priors = NoPriors /\ fit_res = 0

\* lines 159-176
FitPrepare ==
    /\ fit_pc = "args"
    /\ fp_priors' = EffectivePriors(method, arg_priors)
    /\ bnds' = EffectiveBnds(alg)
    /\ param0' = InitialPoint(init_arg, seed)
    /\ fit_pc' = "ready"
    /\ UNCHANGED <<method, alg, init_arg, arg_priors, result, loss_priors, fit_res>>
    /\ UNCHANGED notFit

\* lines 177-188: BADS on loss_fn(x, data, p_priors)
FitBads ==
    /\ fit_pc = "ready" /\ alg = "bads"
    /\ \E x \in XVals :
          result' = [x |-> x, fun |-> loss_fn(x, fp_priors), has_hess |-> FALSE,
                     hess_inv |-> 0]
    /\ loss_priors' = fp_priors
    /\ fit_pc' = "optimised"
    /\ UNCHANGED <<method, alg, init_arg, arg_priors, fp_priors, bnds, param0, fit_res>>
    /\ UNCHANGED notFit

\* lines 190-195: scipy minimize with args=(data, p_priors)
FitMinimize ==
    /\ fit_pc = "ready" /\ alg # "bads"
    /\ \E x \in XVals, h \in HessInvVals :
          result' = [x |-> x, fun |-> loss_fn(x, fp_priors),
                     has_hess |-> (alg = "BFGS"),
                     hess_inv |-> IF alg = "BFGS" THEN h ELSE 0]
    /\ loss_priors' = fp_priors
    /\ fit_pc' = "optimised"
    /\ UNCHANGED <<method, alg, init_arg, arg_priors, fp_priors, bnds, param0, fit_res>>
    /\ UNCHANGED notFit

\* lines 200-210
FitRes(r, a) ==
    [log_post |-> XNeg(r.fun),
     log_like |-> XNeg(loss_fn(r.x, NoPriors)),
     param    |-> r.x,
     n_param  |-> n_param,
     aic      |-> XSub(Fin(n_param * 2), XAdd(XNeg(loss_fn(r.x, NoPriors)), XNeg(loss_fn(r.x, NoPriors)))),
     bic      |-> XSub(Fin(n_param * Log2(n_rows)), XAdd(XNeg(loss_fn(r.x, NoPriors)), XNeg(loss_fn(r.x, NoPriors)))),
     has_H    |-> (a = "BFGS"),
     H        |-> IF a = "BFGS" THEN Pinv(r.hess_inv) ELSE Rat(0, 1),
     H_inv    |-> IF a = "BFGS" THEN r.hess_inv ELSE 0]

\* lines 199-212
FitSave ==
    /\ fit_pc = "optimised"
    /\ fit_res' = FitRes(result, alg)
    /\ fit_pc' = "done"
    /\ UNCHANGED <<method, alg, init_arg, arg_priors, fp_priors, bnds, param0,
                   result, loss_priors>>
    /\ UNCHANGED notFit

FitNext == FitPrepare \/ FitBads \/ FitMinimize \/ FitSave

InitFit == FitInit /\ HierIdle /\ ParIdle /\ BmsIdle /\ XpIdle

SpecFit == InitFit /\ [][FitNext]_vars

\* C8 as claimed: the priors the loss is minimised with are the priors passed,
\* whatever the method argument (a prior list gives MAP, None gives MLE).
C8_PriorsAloneDecide ==
    fit_pc \in {"optimised", "done"} => loss_priors = arg_priors

\* C8 as the code has it: the loss is minimised with the priors passed when
\* method is not 'mle', and without priors (MLE) when method is 'mle', the
\* default, or when no priors are passed; log_post is minus that loss.
C8_MethodAndPriorsDecide ==
    /\ fit_pc \in {"optimised", "done"} =>
          loss_priors = (IF method = "mle" THEN NoPriors ELSE arg_priors)
    /\ fit_pc = "done" =>
          fit_res.log_post =
              XNeg(loss_fn(fit_res.param, IF method = "mle" THEN NoPriors ELSE arg_priors))

\* priors passed with method 'hier' and used; priors passed with 'mle' and dropped
C8_Witness ==
    \/ fit_pc = "done" /\ method = "hier" /\ arg_priors.given /\ loss_priors = arg_priors
                       /\ fit_res.log_post # fit_res.log_like
    \/ fit_pc = "done" /\ method = "mle" /\ arg_priors.given /\ ~loss_priors.given

\* ====================================================================
\*                             fit_parallel
\* ====================================================================
\* log_post = -loss a restart may come back with: two finite values, a loss of
\* +inf and a loss of NaN (the optimiser did not converge)
ParLogPost == {Fin(0), Fin(1), NInf, NaN}

Restarts == 0..(n_fits - 1)                       \* range(n_fits)
Pending  == [ready |-> FALSE, log_post |-> NaN, seed |-> 0]
Unbound  == [bound |-> FALSE, log_post |-> NaN, seed |-> 0]   \* opt_res before line 268

ParInit ==
    /\ par_pc = "collect"
    /\ n_fits \in 1..MaxFits
    /\ results = [i \in Restarts |-> Pending]      \* lines 248-260: all submitted
    /\ pi = 0
    /\ opt_val = PInf /\ opt_res = Unbound /\ losses = <<>>
    /\ par_ret = Unbound

\* a pool worker finishes fit(..., seed+2*i, ...) of restart i, in any order
WorkerDone(i) ==
    /\ par_pc = "collect"
    /\ ~results[i].ready
    /\ \E lp \in ParLogPost :
          results' = [results EXCEPT ![i] =
                         [ready |-> TRUE, log_post |-> lp, seed |-> seed + 2 * i]]
    /\ UNCHANGED <<par_pc, n_fits, pi, opt_val, opt_res, losses, par_ret>>
    /\ UNCHANGED notPar

\* line 266: -res['log_post'] < opt_val
Better(loss, best) == XLt(loss, best)

\* lines 263-268: p.get() blocks until restart pi is ready, then compares
Collect ==
    /\ par_pc = "collect"
    /\ pi < n_fits
    /\ results[pi].ready
    /\ losses' = Append(losses, XNeg(results[pi].log_post))
    /\ IF Better(XNeg(results[pi].log_post), opt_val)
       THEN /\ opt_val' = XNeg(results[pi].log_post)
            /\ opt_res' = [bound |-> TRUE, log_post |-> results[pi].log_post,
                           seed |-> results[pi].seed]
       ELSE UNCHANGED <<opt_val, opt_res>>
    /\ pi' = pi + 1
    /\ UNCHANGED <<par_pc, n_fits, results, par_ret>>
    /\ UNCHANGED notPar

\* line 272 with opt_res bound
Return ==
    /\ par_pc = "collect" /\ pi = n_fits
    /\ opt_res.bound
    /\ par_ret' = opt_res
    /\ par_pc' = "returned"
    /\ UNCHANGED <<n_fits, results, pi, opt_val, opt_res, losses>>
    /\ UNCHANGED notPar

\* line 272 with opt_res never assigned: UnboundLocalError
RaiseUnbound ==
    /\ par_pc = "collect" /\ pi = n_fits
    /\ ~opt_res.bound
    /\ par_pc' = "raised"
    /\ UNCHANGED <<n_fits, results, pi, opt_val, opt_res, losses, par_ret>>
    /\ UNCHANGED notPar

ParNext == (\E i \in Restarts : WorkerDone(i)) \/ Collect \/ Return \/ RaiseUnbound

InitPar == ParInit /\ HierIdle /\ FitIdle /\ BmsIdle /\ XpIdle

SpecPar == InitPar /\ [][ParNext]_vars

\* restart i holds a maximal log_post: a number no other restart exceeds
MaximalLogPost(i) ==
    /\ ~IsNan(results[i].log_post)
    /\ \A j \in Restarts : ~XLt(results[i].log_post, results[j].log_post)

FirstMaximal == CHOOSE i \in Restarts :
    MaximalLogPost(i) /\ \A j \in Restarts : MaximalLogPost(j) => i <= j

\* C4: whatever the order in which the workers complete, fit_parallel returns
\* the result of the restart with the smallest index among those whose
\* log_post is maximal.
C4_FirstBestWins ==
    (par_pc \in {"returned", "raised"} /\ \E i \in Restarts : MaximalLogPost(i)) =>
        (par_pc = "returned" /\ par_ret.seed = seed + 2 * FirstMaximal
         /\ par_ret.log_post = results[FirstMaximal].log_post)

\* C11: for every n_fits >= 1 and every combination of restart outcomes,
\* restarts whose loss is NaN or +infinity included, fit_parallel ends by
\* returning the result of one of its n_fits restarts and never by raising.
C11_ReturnsARestart ==
    par_pc \in {"returned", "raised"} =>
        /\ par_pc = "returned"
        /\ \E i \in Restarts : par_ret.bound /\ par_ret.seed = results[i].seed
                               /\ par_ret.log_post = results[i].log_post

\* ====================================================================
\*                     fit_bms: the evidence matrix
\* ====================================================================
Models  == 1..NModels
DetVals == {-1, 0, 1}      \* np.linalg.det(H): negative, zero, positive

\* the inputs: log_post and bic are fixed tables with pairwise distinct entries,
\* the Hessian determinants vary
SubInfo(dets) ==
    [m \in Models |->
        [log_post |-> [s \in 1..NSub |-> Fin(m + 2 * s)],
         H        |-> [s \in 1..NSub |-> dets[m][s]],
         bic      |-> [s \in 1..NSub |-> Fin(2 * (NSub * m + s))],
         n_param  |-> n_param]]

\* np.log(x) of a double: nan below zero, -inf at zero
NpLog(x) == IF x < 0 THEN NaN ELSE IF x = 0 THEN NInf ELSE Fin(Log2(x))

\* lines 384-387: the Laplace evidence of unit s
LaplaceEvidence(fi, s) ==
    XAdd(fi.log_post[s], XHalf(XSub(Fin(fi.n_param * LOG_2PI), NpLog(fi.H[s]))))

\* line 391: np.isnan | np.isinf | imag != 0 (np.log of a real is never complex)
Degenerate(x) == IsNan(x) \/ IsInf(x)

\* -.5 * np.array(fit_info['bic'])
BicColumn(fi) == [s \in 1..NSub |-> XHalf(XNeg(fi.bic[s]))]

\* lines 381-396, for the fit_info of one model
calc_lme(fi) ==
    IF \E s \in 1..NSub : Degenerate(LaplaceEvidence(fi, s))
    THEN BicColumn(fi)
    ELSE [s \in 1..NSub |-> LaplaceEvidence(fi, s)]

BmsInit ==
    /\ bms_pc = "cols"
    /\ \E dets \in [Models -> [1..NSub -> DetVals]] : all_sub_info = SubInfo(dets)
    /\ use_bic \in BOOLEAN
    /\ cols = <<>> /\ lme_mat = <<>>

\* line 313: the next model of the comprehension, use_bic set
ColumnBic ==
    /\ bms_pc = "cols" /\ use_bic /\ Len(cols) < NModels
    /\ cols' = Append(cols, BicColumn(all_sub_info[Len(cols) + 1]))
    /\ UNCHANGED <<bms_pc, all_sub_info, use_bic, lme_mat>>
    /\ UNCHANGED notBms

\* line 315: the next model of the comprehension, through calc_lme
ColumnLme ==
    /\ bms_pc = "cols" /\ ~use_bic /\ Len(cols) < NModels
    /\ cols' = Append(cols, calc_lme(all_sub_info[Len(cols) + 1]))
    /\ UNCHANGED <<bms_pc, all_sub_info, use_bic, lme_mat>>
    /\ UNCHANGED notBms

\* np.vstack(...).T: row = unit, column = model
Stack ==
    /\ bms_pc = "cols" /\ Len(cols) = NModels
    /\ lme_mat' = [s \in 1..NSub |-> [m \in Models |-> cols[m][s]]]
    /\ bms_pc' = "lme"
    /\ UNCHANGED <<all_sub_info, use_bic, cols>>
    /\ UNCHANGED notBms

BmsNext == ColumnBic \/ ColumnLme \/ Stack

InitBms == BmsInit /\ HierIdle /\ ParIdle /\ FitIdle /\ XpIdle

SpecBms == InitBms /\ [][BmsNext]_vars

\* C6: with use_bic=False, a unit whose Laplace evidence is non-finite for at
\* least one model has -0.5*BIC in its whole row, and every other unit has the
\* Laplace evidence in its whole row.
C6_FallbackPerUnit ==
    (bms_pc = "lme" /\ ~use_bic) =>
        \A u \in 1..NSub :
            IF \E m \in Models : Degenerate(LaplaceEvidence(all_sub_info[m], u))
            THEN \A m \in Models : lme_mat[u][m] = XHalf(XNeg(all_sub_info[m].bic[u]))
            ELSE \A m \in Models : lme_mat[u][m] = LaplaceEvidence(all_sub_info[m], u)

\* ====================================================================
\*        dirchlet_exceedence and the protected exceedance (fit_bms)
\* ====================================================================
BlockBytes == 268435456     \* 2**28
DrawVals   == {1, 2}        \* values a gamma draw may take (two draws may be equal)
AlphaVals  == {1, 2}        \* Dirichlet pseudo-counts tried
BorVals    == {Rat(0, 1), Rat(1, 2), Rat(1, 1)}   \* values calc_BOR may return

CeilDiv(a, b) == (a + b - 1) \div b

\* lines 410-413: the number of blocks, equal sizes, the last one taking the rest
\* the block sizes without line 412: the last block keeps the even share
BlocksNoRemainder(n, Nm) ==
    LET nb   == CeilDiv(n * Nm * 8, BlockBytes)
        each == n \div nb
    IN  [i \in 1..nb |-> each]

Blocks(n, Nm) ==
    LET nb   == CeilDiv(n * Nm * 8, BlockBytes)
        each == n \div nb
    IN  [i \in 1..nb |-> IF i < nb THEN each ELSE n - (nb - 1) * each]

RECURSIVE SeqMax(_)
SeqMax(row) ==
    IF Len(row) = 1 THEN row[1]
    ELSE IF Head(row) >= SeqMax(Tail(row)) THEN Head(row) ELSE SeqMax(Tail(row))

\* line 423: r == np.amax(r, axis=1, keepdims=True), entry k of one draw
IsMax(row, k) == row[k] = SeqMax(row)

\* line 423: (...).sum(axis=0), the count of model k over the draws of a block
BlockCount(r, k) == Cardinality({i \in DOMAIN r : IsMax(r[i], k)})

\* the maxima a block holds beyond one per draw
RECURSIVE Surplus(_)
Surplus(r) ==
    IF r = <<>> THEN 0
    ELSE Cardinality({k \in DOMAIN Head(r) : IsMax(Head(r), k)}) - 1 + Surplus(Tail(r))

\* a protected exceedance that adds BOR undivided
PxpUndivided(b, x, Nm) == RAdd(RMul(RSub(Rat(1, 1), b), x), b)

\* line 354: (1-bor)*xp + bor/Nm
Pxp(b, x, Nm) == RAdd(RMul(RSub(Rat(1, 1), b), x), RDivInt(b, Nm))

RECURSIVE RSum(_)
RSum(s) == IF s = <<>> THEN Rat(0, 1) ELSE RAdd(Head(s), RSum(Tail(s)))

RECURSIVE ISum(_)
ISum(s) == IF s = <<>> THEN 0 ELSE Head(s) + ISum(Tail(s))

XpInit ==
    /\ xp_pc = "blocks"
    /\ alpha_post \in [Models -> AlphaVals]
    /\ nSample \in 1..MaxSample
    /\ blk = <<>> /\ bi = 1
    /\ xp = [k \in Models |-> 0]
    /\ ties = 0
    /\ bor = Rat(0, 1) /\ pxp = <<>>

\* lines 406-416
XpBlocks ==
    /\ xp_pc = "blocks"
    /\ blk' = Blocks(nSample, Len(alpha_post))
    /\ xp' = [k \in DOMAIN alpha_post |-> 0]
    /\ bi' = 1
    /\ xp_pc' = "sample"
    /\ UNCHANGED <<alpha_post, nSample, ties, bor, pxp>>
    /\ UNCHANGED notXp

\* lines 417-423: one block: blk[bi] draws per model, counted by the max rule
XpSample ==
    /\ xp_pc = "sample" /\ bi <= Len(blk)
    /\ \E r \in [1..blk[bi] -> [Models -> DrawVals]] :
          /\ xp' = [k \in Models |-> xp[k] + BlockCount(r, k)]
          /\ ties' = ties + Surplus(r)
    /\ bi' = bi + 1
    /\ UNCHANGED <<xp_pc, alpha_post, nSample, blk, bor, pxp>>
    /\ UNCHANGED notXp

\* line 425: return xp / nSample; back in fit_bms (line 348)
XpReturn ==
    /\ xp_pc = "sample" /\ bi > Len(blk)
    /\ xp' = [k \in DOMAIN xp |-> Rat(xp[k], nSample)]
    /\ xp_pc' = "ratio"
    /\ UNCHANGED <<alpha_post, nSample, blk, bi, ties, bor, pxp>>
    /\ UNCHANGED notXp

\* line 351: the Bayesian omnibus risk, a number calc_BOR hands back
XpBor ==
    /\ xp_pc = "ratio"
    /\ bor' \in BorVals
    /\ xp_pc' = "pxp"
    /\ UNCHANGED <<alpha_post, nSample, blk, bi, xp, ties, pxp>>
    /\ UNCHANGED notXp

\* line 354
XpProtected ==
    /\ xp_pc = "pxp"
    /\ pxp' = [k \in Models |-> Pxp(bor, xp[k], NModels)]
    /\ xp_pc' = "done"
    /\ UNCHANGED <<alpha_post, nSample, blk, bi, xp, ties, bor>>
    /\ UNCHANGED notXp

XpNext == XpBlocks \/ XpSample \/ XpReturn \/ XpBor \/ XpProtected

InitXp == XpInit /\ HierIdle /\ ParIdle /\ FitIdle /\ BmsIdle

SpecXp == InitXp /\ [][XpNext]_vars

\* C7 as claimed: whatever the draws, the per-model counts sum to nSample, so
\* xp sums to 1 and pxp sums to 1.
C7_CountsSumToNSample ==
    /\ xp_pc = "ratio" => REq(RSum(xp), Rat(1, 1))
    /\ xp_pc = "done" => (REq(RSum(xp), Rat(1, 1)) /\ REq(RSum(pxp), Rat(1, 1)))

\* C7 as the code has it: a draw whose maximum is attained by j models counts
\* j times, so the counts sum to nSample plus the surplus maxima:
\* sum(xp) = 1 + ties/nSample and sum(pxp) = (1-bor)*sum(xp) + bor; both are
\* exactly 1 when no draw has tied maxima.
C7_CountsSumWithTies ==
    /\ (xp_pc = "sample" /\ bi > Len(blk)) => ISum(xp) = nSample + ties
    /\ xp_pc \in {"ratio", "pxp", "done"} => REq(RSum(xp), Rat(nSample + ties, nSample))
    /\ xp_pc = "done" =>
          /\ REq(RSum(pxp), RAdd(RMul(RSub(Rat(1, 1), bor), RSum(xp)), bor))
          /\ ties = 0 => REq(RSum(pxp), Rat(1, 1))

\* a finished run of MaxSample draws without ties, with 0 < BOR < 1
C7_Witness ==
    /\ xp_pc = "done" /\ nSample = MaxSample /\ ties = 0 /\ bor = Rat(1, 2)
    /\ REq(RSum(pxp), Rat(1, 1))

\* ====================================================================
\*            dirchlet_exceedence: the block sizes of large runs
\* ====================================================================
\* line 398: the default nSample=1e6
DefaultSample == 1000000

\* the draws of Nm models that fill one block of BlockBytes bytes exactly
RowsCap(Nm) == BlockBytes \div (Nm * 8)

\* nSample arguments: the smallest, the default, and those within one draw
\* of a whole number of full blocks
SampleSizes(Nm) ==
    {1, DefaultSample} \cup {m * RowsCap(Nm) + d : m \in 1..MaxBlk, d \in {-1, 0, 1}}

BlkInit ==
    /\ xp_pc = "blocks"
    /\ \E Nm \in Models :
          /\ alpha_post = [k \in 1..Nm |-> 1]
          /\ nSample \in SampleSizes(Nm)
          /\ xp = [k \in 1..Nm |-> 0]
    /\ blk = <<>> /\ bi = 1
    /\ ties = 0
    /\ bor = Rat(0, 1) /\ pxp = <<>>

\* lines 417-423 for a whole block at once: the outcome in which one model
\* alone holds the maximum of every draw of the block
XpSampleWhole ==
    /\ xp_pc = "sample" /\ bi <= Len(blk)
    /\ \E k \in DOMAIN alpha_post : xp' = [xp EXCEPT ![k] = @ + blk[bi]]
    /\ bi' = bi + 1
    /\ UNCHANGED <<xp_pc, alpha_post, nSample, blk, ties, bor, pxp>>
    /\ UNCHANGED notXp

BlkNext == XpBlocks \/ XpSampleWhole \/ XpReturn

InitBlk == BlkInit /\ HierIdle /\ ParIdle /\ FitIdle /\ BmsIdle

SpecBlk == InitBlk /\ [][BlkNext]_vars

\* C12 as claimed: for every nSample >= 1 and Nm >= 1 every block, the last
\* one included, has a size b >= 0 with b*Nm*8 <= 2**28.
C12_BlocksWithinCap ==
    xp_pc \in {"sample", "ratio"} =>
        \A i \in DOMAIN blk :
            blk[i] >= 0 /\ blk[i] * Len(alpha_post) * 8 <= BlockBytes

\* C12 as the code has it: every block has a size >= 0 and the sizes sum to
\* nSample; every block but the last is within the cap of 2**28 bytes; the
\* last block, which absorbs the remainder, is within the cap once the draws
\* it holds beyond the even share, fewer than the number of blocks, are left
\* out.
C12_LastBlockAbsorbs ==
    xp_pc \in {"sample", "ratio"} =>
        LET Nm == Len(alpha_post)
            nb == Len(blk)
        IN  /\ nb >= 1
            /\ \A i \in 1..nb : blk[i] >= 0
            /\ \A i \in 1..(nb - 1) : blk[i] * Nm * 8 <= BlockBytes
            /\ (blk[nb] - (nb - 1)) * Nm * 8 <= BlockBytes
            /\ ISum(blk) = nSample

\* a run of several blocks whose last block is larger than the cap
C12_Witness ==
    /\ xp_pc = "ratio" /\ Len(blk) >= 3
    /\ blk[Len(blk)] * Len(alpha_post) * 8 > BlockBytes
    /\ \A i \in 1..(Len(blk) - 1) : blk[i] * Len(alpha_post) * 8 <= BlockBytes
====
